---- MODULE Spec2Model ----
(***************************************************************************)
(* SmartHomeCloud: the REST back end (server/routes.ts, server/storage.ts, *)
(* server/middleware.ts, server/replitAuth.ts, server/googleAuth.ts,       *)
(* server/customAuth.ts, shared/schema.ts) as a state machine.             *)
(*                                                                         *)
(* The state is the relational database plus the session of one browser.   *)
(* Every HTTP request is one action: the whole middleware chain            *)
(* (passport deserializeUser, isAuthenticated, requireRole) and the        *)
(* handler with every storage call it makes.  resp is the response of the  *)
(* last request.                                                           *)
(***************************************************************************)
EXTENDS Integers, Sequences, FiniteSets, TLC

VARIABLES users, houses, devices, alerts, maintenanceRecords,
          audioDetections, userConfigLogs, session, resp, inflight

vars == <<users, houses, devices, alerts, maintenanceRecords,
          audioDetections, userConfigLogs, session, resp, inflight>>

db == <<users, houses, devices, alerts, maintenanceRecords,
        audioDetections, userConfigLogs>>

(***************************************************************************)
(* Bounds of the model.                                                    *)
(***************************************************************************)
MaxTime == 2
MaxNewUsers == 2
MaxDevices == 1
MaxAlerts == 1
MaxMaintenance == 1
MaxDetections == 1
MaxRecentAlerts == 3
MaxNewHouses == 2

\* SQL NULL / JavaScript null and undefined for id-valued columns.
NULL == 0

Times == 1..MaxTime

(***************************************************************************)
(* shared/schema.ts                                                        *)
(***************************************************************************)
Roles == {"homeowner", "iot_team", "cloud_staff"}

AlertStatuses == {"new", "acknowledged", "resolved", "dismissed"}

DeviceTypes == {"camera", "light"}

\* Identities of the OIDC provider (claims.sub); 1..4 are already users.
Subs == {1, 2, 3, 4, 5}

\* gen_random_uuid() / randomUUID(): ids never handed out before.
NewIds == 101..(100 + MaxNewUsers)

Emails == {"e1", "e2", "e3", "e4", "e5"}

\* The e-mail claim the OIDC provider sends for an identity.
EmailOfSub(sub) ==
  CASE sub = 1 -> "e1" [] sub = 2 -> "e2" [] sub = 3 -> "e3"
    [] sub = 4 -> "e4" [] OTHER -> "e5"

GoogleIds == {900}

Passwords == {1, 2}

\* bcrypt.hash(password, 10): a value that is not the password.
Hash(password) == 10 + password

HouseIds == {1, 2, 3}

\* An id in a request that names no row
NoSuchId == 99

DeviceIds == 1..MaxDevices

\* users.id default
FreshUserId == CHOOSE id \in NewIds : id \notin DOMAIN users /\ \A j \in NewIds : j < id => j \in DOMAIN users

CanCreateUser == \E id \in NewIds : id \notin DOMAIN users

\* SELECT ... FROM users WHERE email = ?
UsersWithEmail(email) == {id \in DOMAIN users : users[id].email = email}

\* storage.getUserByEmail: the row, as its id, or NULL
getUserByEmail(email) ==
  IF UsersWithEmail(email) = {} THEN NULL ELSE CHOOSE id \in UsersWithEmail(email) : TRUE

\* INSERT of a row into a table keyed by id
Insert(table, id, row) ==
  [x \in DOMAIN table \cup {id} |-> IF x = id THEN row ELSE table[x]]

\* DELETE of the row with this id
Delete(table, id) == [x \in DOMAIN table \ {id} |-> table[x]]

(***************************************************************************)
(* Sessions (express-session + passport).  A session holds what            *)
(* serializeUser stored at login.                                          *)
(***************************************************************************)
NoSession ==
  [kind |-> "none", uid |-> NULL, role |-> "none", expires_at |-> NULL,
   refresh_token |-> FALSE]

\* replitAuth verify(): claims, tokens and expires_at = claims.exp
OidcSession(sub, exp, rt) ==
  [kind |-> "oidc", uid |-> sub, role |-> "none", expires_at |-> exp,
   refresh_token |-> rt]

\* googleAuth userSession: id, the role at login, provider 'google', no claims
GoogleSession(id, role) ==
  [kind |-> "google", uid |-> id, role |-> role, expires_at |-> NULL,
   refresh_token |-> FALSE]

\* customAuth serializeUser: the user id only
LocalSession(id) ==
  [kind |-> "local", uid |-> id, role |-> "none", expires_at |-> NULL,
   refresh_token |-> FALSE]

NoUser ==
  [id |-> NULL, role |-> "none", claims |-> FALSE, expires_at |-> NULL,
   refresh_token |-> FALSE, provider |-> "none"]

\* deserializeUser that keeps the role the session stored at login
deserializeUserSessionRole(s) ==
  IF s.kind = "none" \/ s.uid = NULL \/ s.uid \notin DOMAIN users
  THEN NoUser
  ELSE [id |-> s.uid,
        role |-> IF s.role = "none" THEN users[s.uid].role ELSE s.role,
        claims |-> (s.kind = "oidc"),
        expires_at |-> s.expires_at, refresh_token |-> s.refresh_token,
        provider |-> IF s.kind = "google" THEN "google" ELSE "none"]

\* passport.deserializeUser: req.user, with the role read from the database
deserializeUser(s) ==
  IF s.kind = "none" \/ s.uid = NULL \/ s.uid \notin DOMAIN users
  THEN NoUser
  ELSE [id |-> s.uid, role |-> users[s.uid].role, claims |-> (s.kind = "oidc"),
        expires_at |-> s.expires_at, refresh_token |-> s.refresh_token,
        provider |-> IF s.kind = "google" THEN "google" ELSE "none"]

\* isAuthenticated without the refresh token test
isAuthenticatedAnyGrant(user, now, grantOk) ==
  IF user.id = NULL THEN FALSE
  ELSE LET isGoogleOAuth == user.provider = "google" \/ ~user.claims
           isReplitAuth == user.claims /\ user.expires_at # NULL
       IN IF isGoogleOAuth THEN TRUE
          ELSE IF ~isReplitAuth THEN FALSE
          ELSE IF now <= user.expires_at THEN TRUE
          ELSE grantOk

\* isAuthenticated: TRUE when it calls next(), FALSE when it answers 401
isAuthenticated(user, now, grantOk) ==
  IF user.id = NULL THEN FALSE
  ELSE LET isGoogleOAuth == user.provider = "google" \/ ~user.claims
           isReplitAuth == user.claims /\ user.expires_at # NULL
       IN IF isGoogleOAuth THEN TRUE
          ELSE IF ~isReplitAuth THEN FALSE
          ELSE IF now <= user.expires_at THEN TRUE
          ELSE IF ~user.refresh_token THEN FALSE
          ELSE grantOk

\* isAuthenticated reaches refreshTokenGrant and the grant succeeds
Refreshes(user, now, grantOk) ==
  /\ user.id # NULL
  /\ user.provider # "google"
  /\ user.claims
  /\ user.expires_at # NULL
  /\ now > user.expires_at
  /\ user.refresh_token
  /\ grantOk

\* updateUserSession(user, tokenResponse): req.user after a refresh, exp the
\* expiry of the new claims and rt whether the response has a refresh token
updateUserSession(user, exp, rt) ==
  [user EXCEPT !.claims = TRUE, !.expires_at = exp, !.refresh_token = rt]

\* What isAuthenticated answers to a request at time now, over the results
\* of the refresh grant
AuthOutcomesAt(user, now) == {isAuthenticated(user, now, grantOk) : grantOk \in BOOLEAN}

\* What isAuthenticated can answer to a request, over the time of the request
AuthOutcomes(user) == UNION {AuthOutcomesAt(user, now) : now \in Times}

\* requireRole without its allow-list test
requireRoleAnyRole(allowedRoles, user) ==
  IF user.id = NULL THEN 401 ELSE 0

\* requireRole(...allowedRoles): 401, 403, or 0 when it calls next()
requireRole(allowedRoles, user) ==
  IF user.id = NULL THEN 401
  ELSE IF user.role \notin allowedRoles THEN 403
  ELSE 0

\* canAccessHouse that asks only whether the house exists
canAccessHouseAnyOwner(userId, houseId, userRole) ==
  IF userRole = "cloud_staff" \/ userRole = "iot_team" THEN TRUE
  ELSE houseId \in DOMAIN houses

\* middleware.canAccessHouse
canAccessHouse(userId, houseId, userRole) ==
  IF userRole = "cloud_staff" \/ userRole = "iot_team" THEN TRUE
  ELSE houseId \in DOMAIN houses /\ houses[houseId].ownerId = userId

(***************************************************************************)
(* Responses.                                                              *)
(***************************************************************************)
\* res.status(status).json(...) of a request of user; ran: the handler body ran;
\* target: the row (:id) or the house (body.houseId) the request names;
\* bodyOk: the body passes the route's schema; now, grantOk: the clock and
\* the answer of the token endpoint at the request, refreshed: isAuthenticated
\* refreshed the tokens, expires_at: req.user.expires_at after isAuthenticated
\* (the four are recorded by GET /api/auth/user), passwords: the values of
\* users.password the body holds
Reply(route, status, user, authed, ran) ==
  [route |-> route, status |-> status, caller |-> user.id, role |-> user.role,
   authed |-> authed, ran |-> ran, target |-> NULL, bodyOk |-> TRUE,
   now |-> NULL, grantOk |-> FALSE, refreshed |-> FALSE, expires_at |-> NULL,
   houses |-> {}, devices |-> {}, alerts |-> <<>>, users |-> {}, passwords |-> {}]

\* The values of the password column in a body that holds these rows whole
\* (res.json of rows selected with db.select().from(users))
SentPasswords(table, ids) == {table[id].password : id \in ids} \ {NULL}

NoResp == Reply("none", 0, NoUser, FALSE, FALSE)

(***************************************************************************)
(* Requests in flight: a handler between two of its awaits.  inflight      *)
(* holds, per connection, the request being served: its route, the email   *)
(* of its body, the await it stands at (pc), and, once answered, the       *)
(* status and the id of the row it created; for POST /api/audio/analyze    *)
(* also the device it read, the name of the upload and the alert it made.  *)
(***************************************************************************)
Slots == {1, 2}

NoRequest ==
  [route |-> "none", email |-> "none", role |-> "none", password |-> NULL,
   pc |-> "idle", status |-> 0, created |-> NULL,
   device |-> NULL, house |-> NULL, fileName |-> "none", alert |-> NULL]

(***************************************************************************)
(* Initial state: a deployed database with four users (two homeowners, one *)
(* iot_team, one cloud_staff), each known to the OIDC provider and to      *)
(* Google, three houses as in the seed script plus owners, nobody logged   *)
(* in.                                                                     *)
(***************************************************************************)
SeedUser(email, role, createdAt) ==
  [email |-> email, role |-> role, password |-> NULL, googleId |-> 900,
   createdAt |-> createdAt]

Init ==
  /\ users = [id \in {1, 2, 3, 4} |->
                CASE id = 1 -> SeedUser("e1", "homeowner", 1)
                  [] id = 2 -> SeedUser("e2", "homeowner", 2)
                  [] id = 3 -> SeedUser("e3", "iot_team", 3)
                  [] OTHER -> SeedUser("e4", "cloud_staff", 4)]
  /\ houses = [id \in HouseIds |->
                 [ownerId |-> CASE id = 1 -> 1 [] id = 2 -> 2 [] OTHER -> NULL]]
  /\ devices = [id \in {} |-> [houseId |-> 1, type |-> "camera"]]
  /\ alerts = <<>>
  /\ maintenanceRecords = [id \in {} |-> [status |-> "scheduled"]]
  /\ audioDetections =
       [id \in {} |-> [deviceId |-> 1, houseId |-> 1, fileName |-> "none",
                       detectedClass |-> "none",
                       alertGenerated |-> FALSE, alertId |-> NULL]]
  /\ userConfigLogs = <<>>
  /\ session = NoSession
  /\ resp = NoResp
  /\ inflight = [slot \in Slots |-> NoRequest]

(***************************************************************************)
(* storage.ts: users                                                       *)
(***************************************************************************)
\* created_at defaultNow(): later rows are newer
NextCreatedAt == Cardinality(DOMAIN users) + 1

\* The unique constraint on users.email, for a row written under this id
EmailFree(id, email) == \A other \in DOMAIN users \ {id} : users[other].email # email

\* upsertUser whose update writes the column defaults for what userData lacks
upsertUserWithDefaults(userData) ==
  Insert(users, userData.id,
         [email |-> userData.email,
          role |-> IF userData.role = "absent" THEN "homeowner" ELSE userData.role,
          password |-> userData.password, googleId |-> NULL,
          createdAt |-> IF userData.id \in DOMAIN users
                        THEN users[userData.id].createdAt ELSE NextCreatedAt])

\* DatabaseStorage.upsertUser: INSERT ... ON CONFLICT (id) DO UPDATE SET the
\* columns userData carries (role "absent" / password NULL: not carried).
\* The table afterwards; the caller checks EmailFree first (the insert throws).
upsertUser(userData) ==
  IF userData.id \in DOMAIN users
  THEN [users EXCEPT ![userData.id] =
          [@ EXCEPT !.email = userData.email,
                    !.role = IF userData.role = "absent" THEN @ ELSE userData.role,
                    !.password = IF userData.password = NULL THEN @ ELSE userData.password]]
  ELSE Insert(users, userData.id,
              [email |-> userData.email,
               role |-> IF userData.role = "absent" THEN "homeowner" ELSE userData.role,
               password |-> userData.password, googleId |-> NULL,
               createdAt |-> NextCreatedAt])

\* storage.createUser (customAuth.ts calls it): INSERT of the values given
createUser(userData) ==
  Insert(users, FreshUserId,
         [email |-> userData.email, role |-> userData.role,
          password |-> userData.password, googleId |-> NULL,
          createdAt |-> NextCreatedAt])

\* storage.getAllUsers().slice(0, 5): ORDER BY created_at DESC, first five
ActiveUsers ==
  {id \in DOMAIN users :
     Cardinality({j \in DOMAIN users : users[j].createdAt > users[id].createdAt}) < 5}

(***************************************************************************)
(* Logins.                                                                 *)
(***************************************************************************)
\* replitAuth.ts GET /api/callback: verify() upserts the user from the claims
OidcLogin(sub, exp, rt) ==
  LET claims == [id |-> sub, email |-> EmailOfSub(sub), role |-> "absent",
                 password |-> NULL]
  IN /\ sub \in DOMAIN users \/ Cardinality(DOMAIN users) < 4 + MaxNewUsers
     /\ IF EmailFree(sub, claims.email)
        THEN /\ users' = upsertUser(claims)
             /\ session' = OidcSession(sub, exp, rt)
             /\ resp' = [Reply("GET /api/callback", 302, NoUser, FALSE, TRUE)
                           EXCEPT !.caller = sub, !.role = users'[sub].role,
                                  !.target = sub]
        ELSE /\ resp' = [Reply("GET /api/callback", 500, NoUser, FALSE, TRUE)
                           EXCEPT !.target = sub]
             /\ UNCHANGED <<users, session>>
     /\ UNCHANGED <<houses, devices, alerts, maintenanceRecords,
                    audioDetections, userConfigLogs, inflight>>

\* googleAuth.ts: the GoogleStrategy verify callback
GoogleLogin(email, googleId) ==
  LET existing == getUserByEmail(email)
      id == IF existing # NULL THEN existing ELSE FreshUserId
  IN /\ existing # NULL \/ CanCreateUser
     /\ users' =
          IF existing # NULL
          THEN IF users[existing].googleId = NULL
               THEN [users EXCEPT ![existing].googleId = googleId]
               ELSE users
          ELSE Insert(users, id,
                      [email |-> email, role |-> "homeowner", password |-> NULL,
                       googleId |-> googleId, createdAt |-> NextCreatedAt])
     /\ session' = GoogleSession(id, users'[id].role)
     /\ resp' = [Reply("GET /api/auth/google/callback", 302, NoUser, FALSE, TRUE)
                   EXCEPT !.caller = id, !.role = users'[id].role]
     /\ UNCHANGED <<houses, devices, alerts, maintenanceRecords,
                    audioDetections, userConfigLogs, inflight>>

\* customAuth.ts: the Google, GitHub and Twitter strategies (the same code)
CustomOAuthLogin(email) ==
  LET existing == getUserByEmail(email)
      id == IF existing # NULL THEN existing ELSE FreshUserId
  IN /\ existing # NULL \/ CanCreateUser
     /\ users' =
          IF existing # NULL THEN users
          ELSE createUser([email |-> email, role |-> "homeowner", password |-> NULL])
     /\ session' = LocalSession(id)
     /\ resp' = [Reply("GET /api/auth/:provider/callback", 302, NoUser, FALSE, TRUE)
                   EXCEPT !.caller = id, !.role = users'[id].role]
     /\ UNCHANGED <<houses, devices, alerts, maintenanceRecords,
                    audioDetections, userConfigLogs, inflight>>

\* register passing the role of the request body on to createUser
RegisterRoleFromBody(body) ==
  LET route == "POST /api/auth/register"
      id == FreshUserId
  IN /\ UNCHANGED <<houses, devices, alerts, maintenanceRecords,
                    audioDetections, userConfigLogs, inflight>>
     /\ IF ~body.complete \/ getUserByEmail(body.email) # NULL
        THEN /\ resp' = Reply(route, 400, NoUser, FALSE, TRUE)
             /\ UNCHANGED <<users, session>>
        ELSE /\ CanCreateUser
             /\ users' = createUser([email |-> body.email, role |-> body.role,
                                     password |-> Hash(body.password)])
             /\ session' = LocalSession(id)
             /\ resp' = [Reply(route, 200, NoUser, FALSE, TRUE)
                           EXCEPT !.caller = id, !.role = users'[id].role,
                                  !.users = {id}]

\* customAuth.ts POST /api/auth/register; body.role is what a client may add
Register(body) ==
  LET route == "POST /api/auth/register"
      id == FreshUserId
  IN /\ UNCHANGED <<houses, devices, alerts, maintenanceRecords,
                    audioDetections, userConfigLogs, inflight>>
     /\ \/ /\ ~body.complete
           /\ resp' = Reply(route, 400, NoUser, FALSE, TRUE)
           /\ UNCHANGED <<users, session>>
        \/ /\ body.complete
           /\ getUserByEmail(body.email) # NULL
           /\ resp' = Reply(route, 400, NoUser, FALSE, TRUE)
           /\ UNCHANGED <<users, session>>
        \/ /\ body.complete
           /\ getUserByEmail(body.email) = NULL
           /\ CanCreateUser
           /\ users' = createUser([email |-> body.email, role |-> "homeowner",
                                   password |-> Hash(body.password)])
           /\ session' = LocalSession(id)
           /\ resp' = [Reply(route, 200, NoUser, FALSE, TRUE)
                         EXCEPT !.caller = id, !.role = users'[id].role,
                                !.users = {id}]

\* customAuth.ts POST /api/auth/login: LocalStrategy, then req.login
LocalLogin(email, password) ==
  LET route == "POST /api/auth/login"
      id == getUserByEmail(email)
      ok == /\ id # NULL
            /\ users[id].password # NULL
            /\ users[id].password = Hash(password)
  IN /\ UNCHANGED <<db, inflight>>
     /\ session' = IF ok THEN LocalSession(id) ELSE session
     /\ resp' = IF ok
                THEN [Reply(route, 200, NoUser, FALSE, TRUE)
                        EXCEPT !.caller = id, !.role = users[id].role, !.users = {id}]
                ELSE Reply(route, 401, NoUser, FALSE, TRUE)

\* req.logout (GET /api/logout, POST /api/auth/logout)
Logout ==
  /\ session # NoSession
  /\ session' = NoSession
  /\ resp' = Reply("logout", 200, deserializeUser(session), FALSE, TRUE)
  /\ UNCHANGED <<db, inflight>>

(***************************************************************************)
(* routes.ts: user management                                              *)
(***************************************************************************)
\* GET /api/users
GetUsers ==
  \E authed \in AuthOutcomes(deserializeUser(session)) :
    LET route == "GET /api/users"
        user == deserializeUser(session)
        guard == requireRole({"cloud_staff"}, user)
    IN /\ UNCHANGED <<db, session, inflight>>
       /\ resp' = IF ~authed
                  THEN Reply(route, 401, user, FALSE, FALSE)
                  ELSE IF guard # 0
                  THEN Reply(route, guard, user, TRUE, FALSE)
                  ELSE [Reply(route, 200, user, TRUE, TRUE) EXCEPT !.users = DOMAIN users,
                                 !.passwords = SentPasswords(users, DOMAIN users)]

\* GET /api/users/active
GetActiveUsers ==
  \E authed \in AuthOutcomes(deserializeUser(session)) :
    LET route == "GET /api/users/active"
        user == deserializeUser(session)
        guard == requireRole({"cloud_staff"}, user)
    IN /\ UNCHANGED <<db, session, inflight>>
       /\ resp' = IF ~authed
                  THEN Reply(route, 401, user, FALSE, FALSE)
                  ELSE IF guard # 0
                  THEN Reply(route, guard, user, TRUE, FALSE)
                  ELSE [Reply(route, 200, user, TRUE, TRUE) EXCEPT !.users = ActiveUsers,
                                 !.passwords = SentPasswords(users, ActiveUsers)]

\* insertUserSchema.parse(req.body): a valid e-mail and a role of the enum
insertUserSchemaOk(body) == body.email \in Emails /\ body.role \in Roles

\* POST /api/users answering 422 to a body that fails the schema
PostUsersUnprocessable(body) ==
  \E authed \in AuthOutcomes(deserializeUser(session)) :
    LET route == "POST /api/users"
        user == deserializeUser(session)
        guard == requireRole({"cloud_staff"}, user)
        userId == FreshUserId
    IN /\ UNCHANGED <<houses, devices, alerts, maintenanceRecords,
                      audioDetections, userConfigLogs, inflight, session>>
       /\ IF ~authed
          THEN resp' = Reply(route, 401, user, FALSE, FALSE) /\ UNCHANGED users
          ELSE IF guard # 0
          THEN resp' = Reply(route, guard, user, TRUE, FALSE) /\ UNCHANGED users
          ELSE IF ~insertUserSchemaOk(body)
          THEN /\ resp' = [Reply(route, 422, user, TRUE, TRUE) EXCEPT !.bodyOk = FALSE]
               /\ UNCHANGED users
          ELSE IF getUserByEmail(body.email) # NULL
          THEN resp' = Reply(route, 409, user, TRUE, TRUE) /\ UNCHANGED users
          ELSE /\ CanCreateUser
               /\ users' = upsertUser([id |-> userId, email |-> body.email,
                                       role |-> body.role, password |-> body.password])
               /\ resp' = [Reply(route, 201, user, TRUE, TRUE)
                             EXCEPT !.users = {userId},
                                    !.passwords = SentPasswords(users', {userId})]

\* POST /api/users
PostUsers(body) ==
  \E authed \in AuthOutcomes(deserializeUser(session)) :
    LET route == "POST /api/users"
        user == deserializeUser(session)
        guard == requireRole({"cloud_staff"}, user)
        userId == FreshUserId
    IN /\ UNCHANGED <<houses, devices, alerts, maintenanceRecords,
                      audioDetections, userConfigLogs, inflight, session>>
       /\ IF ~authed
          THEN resp' = Reply(route, 401, user, FALSE, FALSE) /\ UNCHANGED users
          ELSE IF guard # 0
          THEN resp' = Reply(route, guard, user, TRUE, FALSE) /\ UNCHANGED users
          ELSE IF ~insertUserSchemaOk(body)
          THEN /\ resp' = [Reply(route, 400, user, TRUE, TRUE) EXCEPT !.bodyOk = FALSE]
               /\ UNCHANGED users
          ELSE IF getUserByEmail(body.email) # NULL
          THEN resp' = Reply(route, 409, user, TRUE, TRUE) /\ UNCHANGED users
          ELSE /\ CanCreateUser
               /\ users' = upsertUser([id |-> userId, email |-> body.email,
                                       role |-> body.role, password |-> body.password])
               /\ resp' = [Reply(route, 201, user, TRUE, TRUE)
                             EXCEPT !.users = {userId},
                                    !.passwords = SentPasswords(users', {userId})]

(***************************************************************************)
(* Inputs of the requests.                                                 *)
(***************************************************************************)
RegisterBodies ==
  [email : Emails, password : Passwords, role : Roles, complete : BOOLEAN]

UserBodies ==
  [email : Emails \cup {"not-an-email"}, role : Roles \cup {"super_admin"},
   password : {NULL, 1}]

\* Logins as every specification has them: the OIDC and Google logins
Login ==
  \/ \E sub \in Subs, exp \in Times, rt \in BOOLEAN : OidcLogin(sub, exp, rt)
  \/ \E email \in Emails, googleId \in GoogleIds : GoogleLogin(email, googleId)
  \/ Logout

\* The user-management part of the API with every way to log in
NextUsers ==
  \/ Login
  \/ \E email \in Emails : CustomOAuthLogin(email)
  \/ \E body \in RegisterBodies : Register(body)
  \/ \E email \in Emails, password \in Passwords : LocalLogin(email, password)
  \/ GetUsers
  \/ GetActiveUsers
  \/ \E body \in UserBodies : PostUsers(body)

SpecUsers == Init /\ [][NextUsers]_vars

(***************************************************************************)
(* storage.ts: houses, devices, alerts                                     *)
(***************************************************************************)
Min(a, b) == IF a <= b THEN a ELSE b

\* getHousesByOwner without its WHERE clause
getHousesByOwnerNoFilter(ownerId) == DOMAIN houses

\* DatabaseStorage.getHousesByOwner
getHousesByOwner(ownerId) == {h \in DOMAIN houses : houses[h].ownerId = ownerId}

\* DatabaseStorage.getDevicesByType
getDevicesByType(type) == {d \in DOMAIN devices : devices[d].type = type}

\* devices.id default
FreshDeviceId ==
  CHOOSE id \in DeviceIds :
    id \notin DOMAIN devices /\ \A j \in DeviceIds : j < id => j \in DOMAIN devices

CanCreateDevice == \E id \in DeviceIds : id \notin DOMAIN devices

\* DatabaseStorage.getAllAlerts: ORDER BY created_at DESC, as alert ids
getAllAlerts == [i \in 1..Len(alerts) |-> Len(alerts) + 1 - i]

\* DatabaseStorage.getRecentAlerts
getRecentAlerts(limit) == SubSeq(getAllAlerts, 1, Min(limit, Len(alerts)))

\* allAlerts.filter(a => houseIds.includes(a.houseId))
FilterByHouses(alertIds, houseIds) ==
  LET InHouses(a) == alerts[a].houseId \in houseIds
  IN SelectSeq(alertIds, InHouses)

\* DatabaseStorage.createAlert: the row inserted for a validated body
NewAlert(alertData) ==
  [houseId |-> alertData.houseId, deviceId |-> alertData.deviceId,
   status |-> IF alertData.status = "absent" THEN "new" ELSE alertData.status,
   acknowledgedBy |-> alertData.acknowledgedBy, acknowledgedAt |-> NULL,
   resolvedBy |-> alertData.resolvedBy, resolvedAt |-> NULL]

\* The foreign keys of an alerts row (house_id, device_id)
AlertRefsOk(alertData) ==
  /\ alertData.houseId \in DOMAIN houses
  /\ alertData.deviceId = NULL \/ alertData.deviceId \in DOMAIN devices

\* updateAlertStatus that stamps the acknowledging user on every status
updateAlertStatusStampsAll(id, status, userId, now) ==
  [alerts EXCEPT ![id] =
     [@ EXCEPT !.status = status, !.acknowledgedBy = userId, !.acknowledgedAt = now]]

\* DatabaseStorage.updateAlertStatus: the alerts table afterwards
updateAlertStatus(id, status, userId, now) ==
  [alerts EXCEPT ![id] =
     IF status = "acknowledged"
     THEN [@ EXCEPT !.status = status, !.acknowledgedBy = userId,
                    !.acknowledgedAt = now]
     ELSE IF status = "resolved"
     THEN [@ EXCEPT !.status = status, !.resolvedBy = userId, !.resolvedAt = now]
     ELSE [@ EXCEPT !.status = status]]

(***************************************************************************)
(* routes.ts: houses and devices                                           *)
(***************************************************************************)
\* GET /api/houses
GetHouses ==
  \E authed \in AuthOutcomes(deserializeUser(session)) :
    LET route == "GET /api/houses"
        user == deserializeUser(session)
    IN /\ UNCHANGED <<db, session, inflight>>
       /\ resp' = IF ~authed
                  THEN Reply(route, 401, user, FALSE, FALSE)
                  ELSE IF ~user.claims
                  THEN Reply(route, 500, user, TRUE, TRUE)
                  ELSE IF user.role = "cloud_staff" \/ user.role = "iot_team"
                  THEN [Reply(route, 200, user, TRUE, TRUE) EXCEPT !.houses = DOMAIN houses]
                  ELSE [Reply(route, 200, user, TRUE, TRUE)
                          EXCEPT !.houses = getHousesByOwner(user.id)]

\* houses.id default gen_random_uuid(): ids of the houses created
NewHouseIds == 11..(10 + MaxNewHouses)

FreshHouseId ==
  CHOOSE id \in NewHouseIds :
    id \notin DOMAIN houses /\ \A j \in NewHouseIds : j < id => j \in DOMAIN houses

CanCreateHouse == \E id \in NewHouseIds : id \notin DOMAIN houses

\* insertHouseSchema.parse: name and address are required
insertHouseSchemaOk(body) == body.valid

\* POST /api/houses that spreads req.body over ownerId: userId
PostHousesOwnerFromBody(body) ==
  \E authed \in AuthOutcomes(deserializeUser(session)) :
    LET route == "POST /api/houses"
        user == deserializeUser(session)
        id == FreshHouseId
        reply(status) ==
          [Reply(route, status, user, TRUE, TRUE)
             EXCEPT !.target = body.ownerId, !.bodyOk = insertHouseSchemaOk(body)]
    IN /\ UNCHANGED <<users, devices, alerts, maintenanceRecords,
                      audioDetections, userConfigLogs, inflight, session>>
       /\ IF ~authed
          THEN resp' = Reply(route, 401, user, FALSE, FALSE) /\ UNCHANGED houses
          ELSE IF ~user.claims \/ ~insertHouseSchemaOk(body)
          THEN resp' = reply(400) /\ UNCHANGED houses
          ELSE /\ CanCreateHouse
               /\ houses' = Insert(houses, id,
                                   [ownerId |-> IF body.ownerId = NULL THEN user.id
                                                ELSE body.ownerId])
               /\ resp' = [reply(201) EXCEPT !.houses = {id}]

\* POST /api/houses: insertHouseSchema.parse({...req.body, ownerId: userId}),
\* userId = req.user.claims.sub (a TypeError without claims, caught: 400)
PostHouses(body) ==
  \E authed \in AuthOutcomes(deserializeUser(session)) :
    LET route == "POST /api/houses"
        user == deserializeUser(session)
        id == FreshHouseId
        reply(status) ==
          [Reply(route, status, user, TRUE, TRUE)
             EXCEPT !.target = body.ownerId, !.bodyOk = insertHouseSchemaOk(body)]
    IN /\ UNCHANGED <<users, devices, alerts, maintenanceRecords,
                      audioDetections, userConfigLogs, inflight, session>>
       /\ IF ~authed
          THEN resp' = Reply(route, 401, user, FALSE, FALSE) /\ UNCHANGED houses
          ELSE IF ~user.claims \/ ~insertHouseSchemaOk(body)
          THEN resp' = reply(400) /\ UNCHANGED houses
          ELSE /\ CanCreateHouse
               /\ houses' = Insert(houses, id, [ownerId |-> user.id])
               /\ resp' = [reply(201) EXCEPT !.houses = {id}]

\* insertDeviceSchema.parse(req.body)
insertDeviceSchemaOk(body) == body.type \in DeviceTypes

\* POST /api/devices
PostDevices(body) ==
  \E authed \in AuthOutcomes(deserializeUser(session)) :
    LET route == "POST /api/devices"
        user == deserializeUser(session)
        guard == requireRole({"iot_team", "cloud_staff"}, user)
        id == FreshDeviceId
        reply(status, ran) ==
          [Reply(route, status, user, TRUE, ran)
             EXCEPT !.target = body.houseId, !.bodyOk = insertDeviceSchemaOk(body)]
    IN /\ UNCHANGED <<users, houses, alerts, maintenanceRecords,
                      audioDetections, userConfigLogs, inflight, session>>
       /\ IF ~authed
          THEN resp' = Reply(route, 401, user, FALSE, FALSE) /\ UNCHANGED devices
          ELSE IF guard # 0
          THEN resp' = reply(guard, FALSE) /\ UNCHANGED devices
          ELSE IF ~insertDeviceSchemaOk(body)
          THEN resp' = reply(400, TRUE) /\ UNCHANGED devices
          ELSE IF body.houseId \notin DOMAIN houses
          THEN resp' = reply(404, TRUE) /\ UNCHANGED devices
          ELSE /\ CanCreateDevice
               /\ devices' = Insert(devices, id, [houseId |-> body.houseId, type |-> body.type])
               /\ resp' = [reply(201, TRUE) EXCEPT !.devices = {id}]

\* The devices a homeowner's list holds: those of the houses the user owns
DevicesOfOwner(deviceIds, userId) ==
  {d \in deviceIds : devices[d].houseId \in getHousesByOwner(userId)}

\* GET /api/devices
GetDevices ==
  \E authed \in AuthOutcomes(deserializeUser(session)) :
    LET route == "GET /api/devices"
        user == deserializeUser(session)
    IN /\ UNCHANGED <<db, session, inflight>>
       /\ resp' = IF ~authed
                  THEN Reply(route, 401, user, FALSE, FALSE)
                  ELSE IF ~user.claims
                  THEN Reply(route, 500, user, TRUE, TRUE)
                  ELSE IF user.role = "cloud_staff" \/ user.role = "iot_team"
                  THEN [Reply(route, 200, user, TRUE, TRUE) EXCEPT !.devices = DOMAIN devices]
                  ELSE [Reply(route, 200, user, TRUE, TRUE)
                          EXCEPT !.devices = DevicesOfOwner(DOMAIN devices, user.id)]

\* GET /api/devices/cameras
GetCameras ==
  \E authed \in AuthOutcomes(deserializeUser(session)) :
    LET route == "GET /api/devices/cameras"
        user == deserializeUser(session)
    IN /\ UNCHANGED <<db, session, inflight>>
       /\ resp' = IF ~authed
                  THEN Reply(route, 401, user, FALSE, FALSE)
                  ELSE IF ~user.claims
                  THEN Reply(route, 500, user, TRUE, TRUE)
                  ELSE IF user.role = "cloud_staff" \/ user.role = "iot_team"
                  THEN [Reply(route, 200, user, TRUE, TRUE)
                          EXCEPT !.devices = getDevicesByType("camera")]
                  ELSE [Reply(route, 200, user, TRUE, TRUE)
                          EXCEPT !.devices = DevicesOfOwner(getDevicesByType("camera"), user.id)]

\* GET /api/devices/:id
GetDevice(id) ==
  \E authed \in AuthOutcomes(deserializeUser(session)) :
    LET route == "GET /api/devices/:id"
        user == deserializeUser(session)
        reply(status) == [Reply(route, status, user, TRUE, TRUE) EXCEPT !.target = id]
    IN /\ UNCHANGED <<db, session, inflight>>
       /\ resp' = IF ~authed
                  THEN Reply(route, 401, user, FALSE, FALSE)
                  ELSE IF ~user.claims
                  THEN reply(500)
                  ELSE IF id \notin DOMAIN devices
                  THEN reply(404)
                  ELSE IF /\ user.role = "homeowner"
                          /\ ~canAccessHouse(user.id, devices[id].houseId, user.role)
                  THEN reply(403)
                  ELSE [reply(200) EXCEPT !.devices = {id}]

\* The foreign key devices.house_id of an update; houseId NULL: not in the body
DeviceUpdateOk(body) == body.houseId = NULL \/ body.houseId \in DOMAIN houses

\* DatabaseStorage.updateDevice: SET the columns the body carries
updateDevice(id, body) ==
  IF id \notin DOMAIN devices THEN devices
  ELSE [devices EXCEPT ![id] =
          [houseId |-> IF body.houseId = NULL THEN @.houseId ELSE body.houseId,
           type |-> IF body.type = "absent" THEN @.type ELSE body.type]]

\* PATCH /api/devices/:id
PatchDevice(id, body) ==
  \E authed \in AuthOutcomes(deserializeUser(session)) :
    LET route == "PATCH /api/devices/:id"
        user == deserializeUser(session)
        guard == requireRole({"iot_team", "cloud_staff"}, user)
        reply(status, ran) ==
          [Reply(route, status, user, TRUE, ran)
             EXCEPT !.target = id, !.bodyOk = body.type \in DeviceTypes \cup {"absent"}]
    IN /\ UNCHANGED <<users, houses, alerts, maintenanceRecords,
                      audioDetections, userConfigLogs, inflight, session>>
       /\ IF ~authed
          THEN resp' = Reply(route, 401, user, FALSE, FALSE) /\ UNCHANGED devices
          ELSE IF guard # 0
          THEN resp' = reply(guard, FALSE) /\ UNCHANGED devices
          ELSE IF id \in DOMAIN devices /\ ~DeviceUpdateOk(body)
          THEN resp' = reply(400, TRUE) /\ UNCHANGED devices
          ELSE /\ devices' = updateDevice(id, body)
               /\ resp' = [reply(200, TRUE) EXCEPT !.devices = {id} \cap DOMAIN devices]

\* ON DELETE SET NULL of alerts.device_id
AlertsWithoutDevice(id) ==
  [i \in 1..Len(alerts) |->
     IF alerts[i].deviceId = id THEN [alerts[i] EXCEPT !.deviceId = NULL] ELSE alerts[i]]

\* ON DELETE CASCADE of audio_detections.device_id
DetectionsWithoutDevice(id) ==
  [x \in {y \in DOMAIN audioDetections : audioDetections[y].deviceId # id} |->
     audioDetections[x]]

\* DELETE /api/devices/:id
DeleteDevice(id) ==
  \E authed \in AuthOutcomes(deserializeUser(session)) :
    LET route == "DELETE /api/devices/:id"
        user == deserializeUser(session)
        guard == requireRole({"iot_team", "cloud_staff"}, user)
        reply(status, ran) == [Reply(route, status, user, TRUE, ran) EXCEPT !.target = id]
    IN /\ UNCHANGED <<users, houses, maintenanceRecords, userConfigLogs, inflight, session>>
       /\ IF ~authed
          THEN /\ resp' = Reply(route, 401, user, FALSE, FALSE)
               /\ UNCHANGED <<devices, alerts, audioDetections>>
          ELSE IF guard # 0
          THEN /\ resp' = reply(guard, FALSE)
               /\ UNCHANGED <<devices, alerts, audioDetections>>
          ELSE /\ devices' = Delete(devices, id)
               /\ alerts' = AlertsWithoutDevice(id)
               /\ audioDetections' = DetectionsWithoutDevice(id)
               /\ resp' = reply(204, TRUE)

(***************************************************************************)
(* routes.ts: alerts                                                       *)
(***************************************************************************)
\* insertAlertSchema.parse(req.body)
insertAlertSchemaOk(body) == body.valid

\* POST /api/alerts, on a table that holds at most cap rows
PostAlertsUpTo(body, cap) ==
  \E authed \in AuthOutcomes(deserializeUser(session)) :
    LET route == "POST /api/alerts"
        user == deserializeUser(session)
        reply(status) ==
          [Reply(route, status, user, TRUE, TRUE)
             EXCEPT !.target = body.houseId, !.bodyOk = insertAlertSchemaOk(body)]
    IN /\ UNCHANGED <<users, houses, devices, maintenanceRecords,
                      audioDetections, userConfigLogs, inflight, session>>
       /\ IF ~authed
          THEN resp' = Reply(route, 401, user, FALSE, FALSE) /\ UNCHANGED alerts
          ELSE IF ~user.claims \/ ~insertAlertSchemaOk(body)
          THEN resp' = reply(400) /\ UNCHANGED alerts
          ELSE IF /\ user.role = "homeowner"
                  /\ ~canAccessHouse(user.id, body.houseId, user.role)
          THEN resp' = reply(403) /\ UNCHANGED alerts
          ELSE IF ~AlertRefsOk(body)
          THEN resp' = reply(400) /\ UNCHANGED alerts
          ELSE /\ Len(alerts) < cap
               /\ alerts' = Append(alerts, NewAlert(body))
               /\ resp' = [reply(201) EXCEPT !.alerts = <<Len(alerts) + 1>>]

\* POST /api/alerts
PostAlerts(body) == PostAlertsUpTo(body, MaxAlerts)

\* GET /api/alerts
GetAlerts ==
  \E authed \in AuthOutcomes(deserializeUser(session)) :
    LET route == "GET /api/alerts"
        user == deserializeUser(session)
    IN /\ UNCHANGED <<db, session, inflight>>
       /\ resp' = IF ~authed
                  THEN Reply(route, 401, user, FALSE, FALSE)
                  ELSE IF ~user.claims
                  THEN Reply(route, 500, user, TRUE, TRUE)
                  ELSE IF user.role = "cloud_staff" \/ user.role = "iot_team"
                  THEN [Reply(route, 200, user, TRUE, TRUE) EXCEPT !.alerts = getAllAlerts]
                  ELSE [Reply(route, 200, user, TRUE, TRUE)
                          EXCEPT !.alerts =
                            FilterByHouses(getAllAlerts, getHousesByOwner(user.id))]

\* GET /api/alerts/recent?limit=
GetRecentAlerts(limit) ==
  \E authed \in AuthOutcomes(deserializeUser(session)) :
    LET route == "GET /api/alerts/recent"
        user == deserializeUser(session)
        userAlerts == FilterByHouses(getRecentAlerts(limit * 2), getHousesByOwner(user.id))
        reply(status) == [Reply(route, status, user, TRUE, TRUE) EXCEPT !.target = limit]
    IN /\ UNCHANGED <<db, session, inflight>>
       /\ resp' = IF ~authed
                  THEN Reply(route, 401, user, FALSE, FALSE)
                  ELSE IF ~user.claims
                  THEN reply(500)
                  ELSE IF user.role = "cloud_staff" \/ user.role = "iot_team"
                  THEN [reply(200) EXCEPT !.alerts = getRecentAlerts(limit)]
                  ELSE [reply(200)
                          EXCEPT !.alerts = SubSeq(userAlerts, 1, Min(limit, Len(userAlerts)))]

\* POST /api/alerts/:id/acknowledge, /resolve, /dismiss: the three handlers
\* differ in the route and in the status they pass to updateAlertStatus
SetAlertStatus(route, id, status) ==
  \E now \in Times :
   \E authed \in AuthOutcomesAt(deserializeUser(session), now) :
    LET user == deserializeUser(session)
        reply(code) == [Reply(route, code, user, TRUE, TRUE) EXCEPT !.target = id]
    IN /\ UNCHANGED <<users, houses, devices, maintenanceRecords,
                      audioDetections, userConfigLogs, inflight, session>>
       /\ IF ~authed
          THEN resp' = Reply(route, 401, user, FALSE, FALSE) /\ UNCHANGED alerts
          ELSE IF ~user.claims
          THEN resp' = reply(500) /\ UNCHANGED alerts
          ELSE IF id \notin 1..Len(alerts)
          THEN resp' = reply(404) /\ UNCHANGED alerts
          ELSE IF /\ user.role = "homeowner"
                  /\ ~canAccessHouse(user.id, alerts[id].houseId, user.role)
          THEN resp' = reply(403) /\ UNCHANGED alerts
          ELSE /\ alerts' = updateAlertStatus(id, status, user.id, now)
               /\ resp' = [reply(200) EXCEPT !.alerts = <<id>>]

AcknowledgeAlert(id) == SetAlertStatus("POST /api/alerts/:id/acknowledge", id, "acknowledged")

ResolveAlert(id) == SetAlertStatus("POST /api/alerts/:id/resolve", id, "resolved")

DismissAlert(id) == SetAlertStatus("POST /api/alerts/:id/dismiss", id, "dismissed")

(***************************************************************************)
(* Inputs of the data routes, and the specifications of the data routes.   *)
(***************************************************************************)
SeedUserIds == {1, 2, 3, 4}

\* Logins of the users that exist (nobody signs up)
LoginExisting ==
  \/ \E sub \in SeedUserIds, exp \in Times, rt \in BOOLEAN : OidcLogin(sub, exp, rt)
  \/ \E sub \in SeedUserIds, googleId \in GoogleIds : GoogleLogin(EmailOfSub(sub), googleId)
  \/ Logout

DeviceBodies == [houseId : {1, 2, NoSuchId}, type : DeviceTypes \cup {"toaster"}]

DevicePatches == [houseId : {NULL, 2, NoSuchId}, type : {"absent", "light"}]

\* Bodies of POST /api/alerts: status, acknowledgedBy and resolvedBy are
\* columns insertAlertSchema does not omit; a body has them all or none
AlertBodies ==
  [houseId : HouseIds \cup {NoSuchId}, deviceId : {NULL} \cup DeviceIds,
   status : {"absent"}, acknowledgedBy : {NULL}, resolvedBy : {NULL}, valid : {TRUE}]
  \cup [houseId : HouseIds \cup {NoSuchId}, deviceId : {NULL} \cup DeviceIds,
         status : {"resolved"}, acknowledgedBy : {NULL}, resolvedBy : {2}, valid : {TRUE}]
  \cup [houseId : {2}, deviceId : {NULL}, status : {"absent"},
         acknowledgedBy : {NULL}, resolvedBy : {NULL}, valid : {FALSE}]

AlertIdParams == 1..(MaxAlerts + 1)

DeviceIdParams == 1..(MaxDevices + 1)

LimitParams == {1, 2}

\* Houses, devices and alerts: the read routes and the routes that create,
\* move and delete rows
NextData ==
  \/ LoginExisting
  \/ GetHouses
  \/ \E body \in DeviceBodies : PostDevices(body)
  \/ GetDevices
  \/ GetCameras
  \/ \E id \in DeviceIdParams : GetDevice(id)
  \/ \E id \in DeviceIdParams, body \in DevicePatches : PatchDevice(id, body)
  \/ \E id \in DeviceIdParams : DeleteDevice(id)
  \/ \E body \in AlertBodies : PostAlerts(body)
  \/ GetAlerts
  \/ \E limit \in LimitParams : GetRecentAlerts(limit)

SpecData == Init /\ [][NextData]_vars

\* The life of alerts: creation and the status routes
NextAlerts ==
  \/ LoginExisting
  \/ \E body \in AlertBodies : PostAlerts(body)
  \/ GetAlerts
  \/ \E id \in AlertIdParams : AcknowledgeAlert(id)
  \/ \E id \in AlertIdParams : ResolveAlert(id)
  \/ \E id \in AlertIdParams : DismissAlert(id)

SpecAlerts == Init /\ [][NextAlerts]_vars

\* The two homeowners sign in
HomeownerLogin == \E sub \in {1, 2}, exp \in Times : OidcLogin(sub, exp, FALSE)

\* Bodies of the alerts the homeowners file, each on a house of their own
RecentAlertBodies ==
  [houseId : {1, 2}, deviceId : {NULL}, status : {"absent"},
   acknowledgedBy : {NULL}, resolvedBy : {NULL}, valid : {TRUE}]

\* The homeowners of two houses filing alerts and reading the recent ones
NextRecent ==
  \/ HomeownerLogin
  \/ \E body \in RecentAlertBodies : PostAlertsUpTo(body, MaxRecentAlerts)
  \/ \E limit \in LimitParams : GetRecentAlerts(limit)

SpecRecent == Init /\ [][NextRecent]_vars

\* Bodies of POST /api/houses: with or without an ownerId, with or without
\* the required columns
HouseBodies == [ownerId : {NULL, 1, 2}, valid : BOOLEAN]

\* Users creating and listing houses
NextHouses ==
  \/ LoginExisting
  \/ \E body \in HouseBodies : PostHouses(body)
  \/ GetHouses

SpecHouses == Init /\ [][NextHouses]_vars

(***************************************************************************)
(* routes.ts: config logs, maintenance, audio detections                   *)
(***************************************************************************)
\* GET /api/database/config-logs
GetConfigLogs ==
  \E authed \in AuthOutcomes(deserializeUser(session)) :
    LET route == "GET /api/database/config-logs"
        user == deserializeUser(session)
        guard == requireRole({"cloud_staff", "iot_team"}, user)
    IN /\ UNCHANGED <<db, session, inflight>>
       /\ resp' = IF ~authed
                  THEN Reply(route, 401, user, FALSE, FALSE)
                  ELSE IF guard # 0
                  THEN Reply(route, guard, user, TRUE, FALSE)
                  ELSE Reply(route, 200, user, TRUE, TRUE)

\* GET /api/maintenance
GetMaintenance ==
  \E authed \in AuthOutcomes(deserializeUser(session)) :
    LET route == "GET /api/maintenance"
        user == deserializeUser(session)
        guard == requireRole({"cloud_staff"}, user)
    IN /\ UNCHANGED <<db, session, inflight>>
       /\ resp' = IF ~authed
                  THEN Reply(route, 401, user, FALSE, FALSE)
                  ELSE IF guard # 0
                  THEN Reply(route, guard, user, TRUE, FALSE)
                  ELSE Reply(route, 200, user, TRUE, TRUE)

MaintenanceIds == 1..MaxMaintenance

\* maintenance_records.id default
FreshMaintenanceId ==
  CHOOSE id \in MaintenanceIds :
    /\ id \notin DOMAIN maintenanceRecords
    /\ \A j \in MaintenanceIds : j < id => j \in DOMAIN maintenanceRecords

CanCreateMaintenance == \E id \in MaintenanceIds : id \notin DOMAIN maintenanceRecords

MaintenanceStatuses == {"scheduled", "in_progress", "completed", "cancelled"}

\* insertMaintenanceRecordSchema.parse(req.body)
insertMaintenanceRecordSchemaOk(body) ==
  body.valid /\ body.status \in MaintenanceStatuses \cup {"absent"}

\* POST /api/maintenance
PostMaintenance(body) ==
  \E authed \in AuthOutcomes(deserializeUser(session)) :
    LET route == "POST /api/maintenance"
        user == deserializeUser(session)
        guard == requireRole({"cloud_staff"}, user)
        id == FreshMaintenanceId
        reply(status, ran) ==
          [Reply(route, status, user, TRUE, ran)
             EXCEPT !.bodyOk = insertMaintenanceRecordSchemaOk(body)]
    IN /\ UNCHANGED <<users, houses, devices, alerts, audioDetections,
                      userConfigLogs, inflight, session>>
       /\ IF ~authed
          THEN resp' = Reply(route, 401, user, FALSE, FALSE) /\ UNCHANGED maintenanceRecords
          ELSE IF guard # 0
          THEN resp' = reply(guard, FALSE) /\ UNCHANGED maintenanceRecords
          ELSE IF ~insertMaintenanceRecordSchemaOk(body)
          THEN resp' = reply(500, TRUE) /\ UNCHANGED maintenanceRecords
          ELSE /\ CanCreateMaintenance
               /\ maintenanceRecords' =
                    Insert(maintenanceRecords, id,
                           [status |-> IF body.status = "absent" THEN "scheduled"
                                       ELSE body.status])
               /\ resp' = [reply(201, TRUE) EXCEPT !.target = id]

\* The body of an update fits the columns of maintenance_records (the
\* route has no schema to parse it with)
MaintenanceUpdateOk(updates) == updates.status \in MaintenanceStatuses \cup {"absent"}

\* PATCH /api/maintenance/:id: the body goes to SET as it is
PatchMaintenance(id, updates) ==
  \E authed \in AuthOutcomes(deserializeUser(session)) :
    LET route == "PATCH /api/maintenance/:id"
        user == deserializeUser(session)
        guard == requireRole({"cloud_staff"}, user)
        reply(status, ran) ==
          [Reply(route, status, user, TRUE, ran)
             EXCEPT !.target = id, !.bodyOk = MaintenanceUpdateOk(updates)]
    IN /\ UNCHANGED <<users, houses, devices, alerts, audioDetections,
                      userConfigLogs, inflight, session>>
       /\ IF ~authed
          THEN resp' = Reply(route, 401, user, FALSE, FALSE) /\ UNCHANGED maintenanceRecords
          ELSE IF guard # 0
          THEN resp' = reply(guard, FALSE) /\ UNCHANGED maintenanceRecords
          ELSE IF id \notin DOMAIN maintenanceRecords
          THEN resp' = reply(404, TRUE) /\ UNCHANGED maintenanceRecords
          ELSE /\ maintenanceRecords' =
                    [maintenanceRecords EXCEPT ![id] =
                       [status |-> IF updates.status = "absent" THEN @.status
                                   ELSE updates.status]]
               /\ resp' = reply(200, TRUE)

\* DELETE /api/maintenance/:id
DeleteMaintenance(id) ==
  \E authed \in AuthOutcomes(deserializeUser(session)) :
    LET route == "DELETE /api/maintenance/:id"
        user == deserializeUser(session)
        guard == requireRole({"cloud_staff"}, user)
        reply(status, ran) == [Reply(route, status, user, TRUE, ran) EXCEPT !.target = id]
    IN /\ UNCHANGED <<users, houses, devices, alerts, audioDetections,
                      userConfigLogs, inflight, session>>
       /\ IF ~authed
          THEN resp' = Reply(route, 401, user, FALSE, FALSE) /\ UNCHANGED maintenanceRecords
          ELSE IF guard # 0
          THEN resp' = reply(guard, FALSE) /\ UNCHANGED maintenanceRecords
          ELSE IF id \notin DOMAIN maintenanceRecords
          THEN resp' = reply(404, TRUE) /\ UNCHANGED maintenanceRecords
          ELSE /\ maintenanceRecords' = Delete(maintenanceRecords, id)
               /\ resp' = reply(200, TRUE)

\* GET /api/audio/detections
GetDetections ==
  \E authed \in AuthOutcomes(deserializeUser(session)) :
    LET route == "GET /api/audio/detections"
        user == deserializeUser(session)
        guard == requireRole({"cloud_staff", "iot_team"}, user)
    IN /\ UNCHANGED <<db, session, inflight>>
       /\ resp' = IF ~authed
                  THEN Reply(route, 401, user, FALSE, FALSE)
                  ELSE IF guard # 0
                  THEN Reply(route, guard, user, TRUE, FALSE)
                  ELSE Reply(route, 200, user, TRUE, TRUE)

\* GET /api/audio/detections/device/:deviceId
GetDeviceDetections(deviceId) ==
  \E authed \in AuthOutcomes(deserializeUser(session)) :
    LET route == "GET /api/audio/detections/device/:deviceId"
        user == deserializeUser(session)
        guard == requireRole({"cloud_staff", "iot_team"}, user)
        reply(status, ran) ==
          [Reply(route, status, user, TRUE, ran) EXCEPT !.target = deviceId]
    IN /\ UNCHANGED <<db, session, inflight>>
       /\ resp' = IF ~authed
                  THEN Reply(route, 401, user, FALSE, FALSE)
                  ELSE IF guard # 0
                  THEN reply(guard, FALSE)
                  ELSE IF deviceId \notin DOMAIN devices
                  THEN reply(404, TRUE)
                  ELSE reply(200, TRUE)

\* Two of the labels of YAMNET_SOUND_CLASSES, one of each kind of severity
AudioClasses == {"Glass breaking", "Human voice/speech"}

\* The severity of a label in YAMNET_SOUND_CLASSES
Severity(label) == IF label = "Glass breaking" THEN "critical" ELSE "low"

\* analyzeAudio: shouldGenerateAlert of a primary detection
shouldGenerateAlert(label) == Severity(label) \in {"medium", "high", "critical"}

DetectionIds == 1..MaxDetections

\* audio_detections.id default
FreshDetectionId ==
  CHOOSE id \in DetectionIds :
    /\ id \notin DOMAIN audioDetections
    /\ \A j \in DetectionIds : j < id => j \in DOMAIN audioDetections

CanCreateDetection == \E id \in DetectionIds : id \notin DOMAIN audioDetections

\* Names of uploaded files: each holds a keyword of one sound class
FileNames == {"glass.wav", "talk.wav"}

\* The sound class whose keywords list has a keyword that fileName contains
KeywordClass(fileName) ==
  IF fileName = "glass.wav" THEN "Glass breaking" ELSE "Human voice/speech"

\* analyzeAudio(fileName, fileBuffer, deviceLocation): the primary detections
\* it can return.  The predictions are drawn with Math.random() from the
\* class tables and sorted by a random confidence; fileName is not read
analyzeAudio(fileName) == AudioClasses

\* POST /api/audio/analyze.  file: what the upload carries ("none", an
\* "audio" type, or another type, which the fileFilter of multer rejects);
\* fileName: req.file.originalname
AnalyzeAudio(file, fileName, deviceId) ==
  \E authed \in AuthOutcomes(deserializeUser(session)) :
  \E primary \in analyzeAudio(fileName) :
    LET route == "POST /api/audio/analyze"
        user == deserializeUser(session)
        guard == requireRole({"cloud_staff", "iot_team"}, user)
        id == FreshDetectionId
        alert == shouldGenerateAlert(primary)
        reply(status, ran) ==
          [Reply(route, status, user, TRUE, ran) EXCEPT !.target = deviceId]
    IN /\ UNCHANGED <<users, houses, devices, maintenanceRecords, userConfigLogs, inflight, session>>
       /\ IF ~authed
          THEN /\ resp' = Reply(route, 401, user, FALSE, FALSE)
               /\ UNCHANGED <<alerts, audioDetections>>
          ELSE IF guard # 0
          THEN resp' = reply(guard, FALSE) /\ UNCHANGED <<alerts, audioDetections>>
          ELSE IF file = "text"
          THEN resp' = reply(500, FALSE) /\ UNCHANGED <<alerts, audioDetections>>
          ELSE IF file = "none" \/ deviceId = NULL
          THEN resp' = reply(400, TRUE) /\ UNCHANGED <<alerts, audioDetections>>
          ELSE IF deviceId \notin DOMAIN devices
          THEN resp' = reply(404, TRUE) /\ UNCHANGED <<alerts, audioDetections>>
          ELSE /\ CanCreateDetection
               /\ alert => Len(alerts) < MaxAlerts
               /\ alerts' =
                    IF alert
                    THEN Append(alerts,
                                [houseId |-> devices[deviceId].houseId, deviceId |-> deviceId,
                                 status |-> "new",
                                 acknowledgedBy |-> NULL, acknowledgedAt |-> NULL,
                                 resolvedBy |-> NULL, resolvedAt |-> NULL])
                    ELSE alerts
               /\ audioDetections' =
                    Insert(audioDetections, id,
                           [deviceId |-> deviceId, houseId |-> devices[deviceId].houseId,
                            fileName |-> fileName, detectedClass |-> primary, alertGenerated |-> alert,
                            alertId |-> IF alert THEN Len(alerts) + 1 ELSE NULL])
               /\ resp' = [reply(201, TRUE)
                             EXCEPT !.alerts = IF alert THEN <<Len(alerts) + 1>> ELSE <<>>]

MaintenanceBodies ==
  [status : {"absent", "completed"}, valid : {TRUE}]
  \cup [status : {"absent"}, valid : {FALSE}]

MaintenancePatches == [status : {"absent", "cancelled", "archived"}]

MaintenanceIdParams == 1..(MaxMaintenance + 1)

Uploads == {"none", "audio", "text"}

\* The routes behind requireRole that serve the staff, with the device
\* creation the audio routes depend on
NextStaff ==
  \/ LoginExisting
  \/ \E body \in {b \in DeviceBodies : b.type = "camera"} : PostDevices(body)
  \/ GetConfigLogs
  \/ GetMaintenance
  \/ \E body \in MaintenanceBodies : PostMaintenance(body)
  \/ \E id \in MaintenanceIdParams, updates \in MaintenancePatches : PatchMaintenance(id, updates)
  \/ \E id \in MaintenanceIdParams : DeleteMaintenance(id)
  \/ GetDetections
  \/ \E deviceId \in DeviceIdParams : GetDeviceDetections(deviceId)
  \/ \E file \in Uploads, fileName \in FileNames, deviceId \in {NULL} \cup DeviceIdParams :
       AnalyzeAudio(file, fileName, deviceId)

SpecStaff == Init /\ [][NextStaff]_vars

(***************************************************************************)
(* routes.ts: GET /api/auth/user, and the session over time                *)
(***************************************************************************)
\* GET /api/auth/user, with isAuthenticated step by step: the clock, the
\* answer of the token endpoint and the expiry of the tokens it issues
GetAuthUser ==
  \E now \in Times, grantOk \in BOOLEAN :
  \E exp \in {t \in Times : t >= now}, rt \in BOOLEAN :
    LET route == "GET /api/auth/user"
        user == deserializeUser(session)
        authed == isAuthenticated(user, now, grantOk)
        refreshed == Refreshes(user, now, grantOk)
        reqUser == IF refreshed THEN updateUserSession(user, exp, rt) ELSE user
        reply(status, ran) ==
          [Reply(route, status, user, authed, ran)
             EXCEPT !.now = now, !.grantOk = grantOk, !.refreshed = refreshed,
                    !.expires_at = reqUser.expires_at]
    IN /\ UNCHANGED <<db, session, inflight>>
       /\ resp' = IF ~authed
                  THEN reply(401, FALSE)
                  ELSE IF ~reqUser.claims
                  THEN reply(500, TRUE)
                  ELSE IF reqUser.id \notin DOMAIN users
                  THEN reply(404, TRUE)
                  ELSE [reply(200, TRUE)
                          EXCEPT !.users = {reqUser.id},
                                 !.passwords = SentPasswords(users, {reqUser.id})]

\* A write of a user's role through DatabaseStorage.upsertUser (no route
\* does it: an administrator's tool or script)
SetRole(id, role) ==
  /\ id \in DOMAIN users
  /\ users[id].role # role
  /\ users' = upsertUser([id |-> id, email |-> users[id].email, role |-> role,
                          password |-> NULL])
  /\ resp' = NoResp
  /\ UNCHANGED <<houses, devices, alerts, maintenanceRecords,
                 audioDetections, userConfigLogs, inflight, session>>

RoleChangeTargets == {1, 4}

\* Sessions over time: logins, requests at any time of the clock, and role
\* changes under open sessions
NextSession ==
  \/ LoginExisting
  \/ GetAuthUser
  \/ \E id \in RoleChangeTargets, role \in Roles : SetRole(id, role)
  \/ GetMaintenance
  \/ GetConfigLogs

SpecSession == Init /\ [][NextSession]_vars

(***************************************************************************)
(* POST /api/auth/register and POST /api/users await by await: requests of *)
(* two connections interleave at the awaits of their handlers.             *)
(***************************************************************************)
\* res.status(status) of the request in flight on this connection
Answer(slot, status, created) ==
  [inflight EXCEPT ![slot] = [@ EXCEPT !.pc = "done", !.status = status,
                                       !.created = created]]

\* POST /api/auth/register up to its first await (the field test)
RegisterBegin(slot, body) ==
  /\ inflight[slot].pc = "idle"
  /\ inflight' =
       IF ~body.complete
       THEN [inflight EXCEPT ![slot] =
               [NoRequest EXCEPT !.route = "POST /api/auth/register",
                                 !.email = body.email, !.pc = "done", !.status = 400]]
       ELSE [inflight EXCEPT ![slot] =
               [NoRequest EXCEPT !.route = "POST /api/auth/register",
                                 !.email = body.email, !.role = "homeowner",
                                 !.password = Hash(body.password), !.pc = "lookup"]]
  /\ UNCHANGED <<db, session, resp>>

\* POST /api/users up to its first await: isAuthenticated, requireRole and
\* insertUserSchema.parse
PostUsersBegin(slot, body) ==
  \E authed \in AuthOutcomes(deserializeUser(session)) :
    LET user == deserializeUser(session)
        guard == requireRole({"cloud_staff"}, user)
        status == IF ~authed THEN 401
                  ELSE IF guard # 0 THEN guard
                  ELSE IF ~insertUserSchemaOk(body) THEN 400
                  ELSE 0
    IN /\ inflight[slot].pc = "idle"
       /\ inflight' =
            [inflight EXCEPT ![slot] =
               [NoRequest EXCEPT !.route = "POST /api/users", !.email = body.email,
                                 !.role = body.role, !.password = body.password,
                                 !.pc = IF status = 0 THEN "lookup" ELSE "done",
                                 !.status = status]]
       /\ UNCHANGED <<db, session, resp>>

\* await storage.getUserByEmail(email), in either handler
Lookup(slot) ==
  /\ inflight[slot].pc = "lookup"
  /\ inflight' =
       IF getUserByEmail(inflight[slot].email) # NULL
       THEN Answer(slot, IF inflight[slot].route = "POST /api/users" THEN 409 ELSE 400, NULL)
       ELSE [inflight EXCEPT ![slot].pc = "insert"]
  /\ UNCHANGED <<db, session, resp>>

\* The INSERT of either handler on a table with no unique constraint on email
InsertUserNoConstraint(slot) ==
  LET r == inflight[slot]
      id == FreshUserId
      userData == [id |-> id, email |-> r.email, role |-> r.role, password |-> r.password]
  IN /\ r.pc = "insert"
     /\ CanCreateUser
     /\ users' = IF r.route = "POST /api/users" THEN upsertUser(userData)
                 ELSE createUser(userData)
     /\ inflight' = Answer(slot, IF r.route = "POST /api/users" THEN 201 ELSE 200, id)
     /\ session' = IF r.route = "POST /api/users" THEN session ELSE LocalSession(id)
     /\ UNCHANGED <<houses, devices, alerts, maintenanceRecords,
                    audioDetections, userConfigLogs, resp>>

\* await storage.createUser(...) of register (then req.login) and await
\* storage.upsertUser(...) of POST /api/users: the INSERT, which throws on
\* the unique constraint of users.email, and the catch that answers 500
InsertUser(slot) ==
  LET r == inflight[slot]
      id == FreshUserId
      userData == [id |-> id, email |-> r.email, role |-> r.role, password |-> r.password]
  IN /\ r.pc = "insert"
     /\ IF UsersWithEmail(r.email) # {}
        THEN /\ inflight' = Answer(slot, 500, NULL)
             /\ UNCHANGED <<users, session>>
        ELSE /\ CanCreateUser
             /\ users' = IF r.route = "POST /api/users" THEN upsertUser(userData)
                         ELSE createUser(userData)
             /\ inflight' = Answer(slot, IF r.route = "POST /api/users" THEN 201 ELSE 200, id)
             /\ session' = IF r.route = "POST /api/users" THEN session
                           ELSE LocalSession(id)
     /\ UNCHANGED <<houses, devices, alerts, maintenanceRecords,
                    audioDetections, userConfigLogs, resp>>

\* The connection is free for its next request
Close(slot) ==
  /\ inflight[slot].pc = "done"
  /\ inflight' = [inflight EXCEPT ![slot] = NoRequest]
  /\ UNCHANGED <<db, session, resp>>

\* The bodies of the racing requests: an email in use and a new one
RaceRegisterBodies == [email : {"e1", "e5"}, password : {1}, role : {"homeowner"},
                       complete : BOOLEAN]

RaceUserBodies == [email : {"e1", "e5"}, role : {"iot_team"}, password : {NULL}]

\* The cloud_staff user signs in (POST /api/users needs the session)
RaceLogin == \E exp \in Times : OidcLogin(4, exp, FALSE)

\* Two connections creating users at the same time
NextRace ==
  \/ RaceLogin
  \/ \E slot \in Slots, body \in RaceRegisterBodies : RegisterBegin(slot, body)
  \/ \E slot \in Slots, body \in RaceUserBodies : PostUsersBegin(slot, body)
  \/ \E slot \in Slots : Lookup(slot)
  \/ \E slot \in Slots : InsertUser(slot)
  \/ \E slot \in Slots : Close(slot)

SpecRace == Init /\ [][NextRace]_vars

(***************************************************************************)
(* POST /api/audio/analyze await by await: the handler reads the device,   *)
(* inserts the detection, inserts the alert and then writes the alert id   *)
(* into the detection, four statements with no transaction around them,    *)
(* while other connections create and delete devices.                      *)
(***************************************************************************)
\* isAuthenticated, requireRole, multer and the tests of req.file and deviceId
AnalyzeBegin(slot, file, fileName, deviceId) ==
  \E authed \in AuthOutcomes(deserializeUser(session)) :
    LET user == deserializeUser(session)
        guard == requireRole({"cloud_staff", "iot_team"}, user)
        status == IF ~authed THEN 401
                  ELSE IF guard # 0 THEN guard
                  ELSE IF file = "text" THEN 500
                  ELSE IF file = "none" \/ deviceId = NULL THEN 400
                  ELSE 0
    IN /\ inflight[slot].pc = "idle"
       /\ inflight' =
            [inflight EXCEPT ![slot] =
               [NoRequest EXCEPT !.route = "POST /api/audio/analyze",
                                 !.device = deviceId, !.fileName = fileName,
                                 !.pc = IF status = 0 THEN "getDevice" ELSE "done",
                                 !.status = status]]
       /\ UNCHANGED <<db, session, resp>>

\* await storage.getDevice(deviceId), then the select of the house
AnalyzeGetDevice(slot) ==
  LET r == inflight[slot]
  IN /\ r.pc = "getDevice"
     /\ inflight' =
          IF r.device \notin DOMAIN devices
          THEN Answer(slot, 404, NULL)
          ELSE [inflight EXCEPT ![slot] =
                  [@ EXCEPT !.house = devices[r.device].houseId, !.pc = "detection"]]
     /\ UNCHANGED <<db, session, resp>>

\* audio_detections.id default gen_random_uuid(): an id that no row has and
\* no handler holds (the cascade of a device delete frees ids of the model,
\* a uuid is never handed out twice)
UnusedDetectionIds ==
  DetectionIds \ (DOMAIN audioDetections \cup {inflight[slot].created : slot \in Slots})

\* analyzeAudio, then await db.insert(audioDetections): the foreign key to
\* devices throws when the device is gone, and the catch answers 500
AnalyzeInsertDetection(slot) ==
  \E primary \in analyzeAudio(inflight[slot].fileName) :
    LET r == inflight[slot]
        id == CHOOSE x \in UnusedDetectionIds : \A y \in UnusedDetectionIds : x <= y
        alert == shouldGenerateAlert(primary)
    IN /\ r.pc = "detection"
       /\ IF r.device \notin DOMAIN devices
          THEN /\ inflight' = Answer(slot, 500, NULL)
               /\ UNCHANGED audioDetections
          ELSE /\ UnusedDetectionIds # {}
               /\ audioDetections' =
                    Insert(audioDetections, id,
                           [deviceId |-> r.device, houseId |-> r.house,
                            fileName |-> r.fileName, detectedClass |-> primary,
                            alertGenerated |-> alert, alertId |-> NULL])
               /\ inflight' =
                    IF alert
                    THEN [inflight EXCEPT ![slot] = [@ EXCEPT !.created = id, !.pc = "alert"]]
                    ELSE Answer(slot, 201, id)
       /\ UNCHANGED <<users, houses, devices, alerts, maintenanceRecords,
                      userConfigLogs, session, resp>>

\* await db.insert(alerts), status 'new': the foreign key to devices throws
\* when the device is gone
AnalyzeInsertAlert(slot) ==
  LET r == inflight[slot]
  IN /\ r.pc = "alert"
     /\ IF r.device \notin DOMAIN devices
        THEN /\ inflight' = Answer(slot, 500, r.created)
             /\ UNCHANGED alerts
        ELSE /\ Len(alerts) < MaxAlerts
             /\ alerts' = Append(alerts,
                                 [houseId |-> r.house, deviceId |-> r.device,
                                  status |-> "new",
                                  acknowledgedBy |-> NULL, acknowledgedAt |-> NULL,
                                  resolvedBy |-> NULL, resolvedAt |-> NULL])
             /\ inflight' = [inflight EXCEPT ![slot] =
                               [@ EXCEPT !.alert = Len(alerts) + 1, !.pc = "link"]]
     /\ UNCHANGED <<users, houses, devices, maintenanceRecords, audioDetections,
                    userConfigLogs, session, resp>>

\* The handler that answers 201 without writing the alert id into the detection
AnalyzeLinkAlertSkipped(slot) ==
  LET r == inflight[slot]
  IN /\ r.pc = "link"
     /\ inflight' = Answer(slot, 201, r.created)
     /\ UNCHANGED <<db, session, resp>>

\* await db.update(audioDetections).set({alertId}).where(id = detection.id),
\* then res.status(201)
AnalyzeLinkAlert(slot) ==
  LET r == inflight[slot]
  IN /\ r.pc = "link"
     /\ audioDetections' =
          IF r.created \in DOMAIN audioDetections
          THEN [audioDetections EXCEPT ![r.created].alertId = r.alert]
          ELSE audioDetections
     /\ inflight' = Answer(slot, 201, r.created)
     /\ UNCHANGED <<users, houses, devices, alerts, maintenanceRecords,
                    userConfigLogs, session, resp>>

\* No handler stands between two awaits
Quiescent == \A slot \in Slots : inflight[slot].pc \in {"idle", "done"}

\* POST /api/devices while no request is in flight: the ids of the model are
\* used again after a delete, the uuids of the database are not, so no device
\* is created while a handler holds the id of a deleted one
AnalyzePostDevices ==
  /\ \A slot \in Slots : inflight[slot].pc = "idle"
  /\ \E body \in {b \in DeviceBodies : b.type = "camera" /\ b.houseId = 1} : PostDevices(body)

\* Audio analysis on two connections while devices come and go
NextAnalyze ==
  \/ RaceLogin
  \/ AnalyzePostDevices
  \/ \E id \in DeviceIds : DeleteDevice(id)
  \/ \E slot \in Slots, file \in Uploads, fileName \in FileNames, deviceId \in {NULL} \cup DeviceIds :
       AnalyzeBegin(slot, file, fileName, deviceId)
  \/ \E slot \in Slots : AnalyzeGetDevice(slot)
  \/ \E slot \in Slots : AnalyzeInsertDetection(slot)
  \/ \E slot \in Slots : AnalyzeInsertAlert(slot)
  \/ \E slot \in Slots : AnalyzeLinkAlert(slot)
  \/ \E slot \in Slots : Close(slot)

SpecAnalyze == Init /\ [][NextAnalyze]_vars

(***************************************************************************)
(* canAccessHouse on its own: called with every user id, house id and role *)
(* on every table of houses the three houses can form.                     *)
(***************************************************************************)
\* The owners a house can have: nobody, or one of the homeowners
HouseTables == [HouseIds -> [ownerId : {NULL, 1, 2}]]

\* The deployed database of Init with any table of houses
InitAccess ==
  /\ houses \in HouseTables
  /\ users = [id \in {1, 2, 3, 4} |->
                CASE id = 1 -> SeedUser("e1", "homeowner", 1)
                  [] id = 2 -> SeedUser("e2", "homeowner", 2)
                  [] id = 3 -> SeedUser("e3", "iot_team", 3)
                  [] OTHER -> SeedUser("e4", "cloud_staff", 4)]
  /\ devices = [id \in {} |-> [houseId |-> 1, type |-> "camera"]]
  /\ alerts = <<>>
  /\ maintenanceRecords = [id \in {} |-> [status |-> "scheduled"]]
  /\ audioDetections =
       [id \in {} |-> [deviceId |-> 1, houseId |-> 1, fileName |-> "none",
                       detectedClass |-> "none",
                       alertGenerated |-> FALSE, alertId |-> NULL]]
  /\ userConfigLogs = <<>>
  /\ session = NoSession
  /\ resp = NoResp
  /\ inflight = [slot \in Slots |-> NoRequest]

\* A call of canAccessHouse(userId, houseId, userRole); resp keeps the
\* arguments (caller, target, role) and, as authed, the value returned
CanAccessHouseCall(userId, houseId, userRole) ==
  /\ resp' = [NoResp EXCEPT !.route = "canAccessHouse", !.caller = userId,
                            !.target = houseId, !.role = userRole,
                            !.authed = canAccessHouse(userId, houseId, userRole)]
  /\ UNCHANGED <<db, session, inflight>>

NextAccess ==
  \E userId \in SeedUserIds, houseId \in HouseIds \cup {NoSuchId}, userRole \in Roles :
    CanAccessHouseCall(userId, houseId, userRole)

SpecAccess == InitAccess /\ [][NextAccess]_vars

(***************************************************************************)
(* Properties.                                                             *)
(***************************************************************************)
UserRoutes == {"GET /api/users", "GET /api/users/active", "POST /api/users"}

\* C4: user management is restricted to cloud staff: a GET /api/users,
\* GET /api/users/active or POST /api/users request of a homeowner or an
\* iot_team user is answered 403 (401 when the session does not authenticate),
\* its handler does not run, it returns no user data and the users table is
\* left as it was.
C4_UserManagementCloudStaffOnly ==
  [][(resp'.route \in UserRoutes /\ resp'.role \in {"homeowner", "iot_team"})
       => /\ resp'.status \in {401, 403}
          /\ resp'.authed => resp'.status = 403
          /\ ~resp'.ran
          /\ resp'.users = {}
          /\ users' = users]_vars

\* C4 happens: an iot_team user posted to /api/users and got 403
C4_Witness ==
  /\ resp.route = "POST /api/users"
  /\ resp.role = "iot_team"
  /\ resp.authed
  /\ resp.status = 403

\* C7: promotions to cloud_staff are blocked: no request leaves a row with
\* role cloud_staff in the users table that did not have that role before.
C7_NoNewCloudStaff ==
  [][\A id \in DOMAIN users' :
       users'[id].role = "cloud_staff"
         => id \in DOMAIN users /\ users[id].role = "cloud_staff"]_vars

\* C8: users cannot change their own roles: the request of a user leaves the
\* role stored for that user as it was.
C8_NoSelfRoleChange ==
  [][\A id \in DOMAIN users \cap DOMAIN users' :
       resp'.caller = id => users'[id].role = users[id].role]_vars

\* C8 happens: the cloud_staff user logged in again through OIDC (an upsert of
\* an existing row) and is still cloud_staff
C8_Witness ==
  /\ resp.route = "GET /api/callback"
  /\ resp.status = 302
  /\ resp.caller = 4
  /\ session.kind = "oidc"
  /\ users[4].role = "cloud_staff"

\* C9: a user row created by anything but POST /api/users (register, a first
\* Google, GitHub, Twitter or OIDC login) has role homeowner.
C9_SelfRegistrationIsHomeowner ==
  [][\A id \in DOMAIN users' \ DOMAIN users :
       resp'.route # "POST /api/users" => users'[id].role = "homeowner"]_vars

\* C9 happens: a registration created a user, who is logged in
C9_Witness ==
  /\ resp.route = "POST /api/auth/register"
  /\ resp.status = 200
  /\ resp.caller \in DOMAIN users
  /\ users[resp.caller].password # NULL
  /\ session = LocalSession(resp.caller)


\* The houses whose ownerId is userId
HousesOwnedBy(userId) == {h \in DOMAIN houses : houses[h].ownerId = userId}

ReadRoutes ==
  {"GET /api/houses", "GET /api/devices", "GET /api/devices/cameras",
   "GET /api/devices/:id", "GET /api/alerts", "GET /api/alerts/recent"}

\* C1: the response of a read route to a homeowner holds only houses the
\* caller owns and only devices and alerts of houses the caller owns.
C1_HomeownerDataIsolation ==
  (resp.route \in ReadRoutes /\ resp.role = "homeowner") =>
    /\ resp.houses \subseteq HousesOwnedBy(resp.caller)
    /\ \A d \in resp.devices :
         d \in DOMAIN devices /\ devices[d].houseId \in HousesOwnedBy(resp.caller)
    /\ \A i \in 1..Len(resp.alerts) :
         /\ resp.alerts[i] \in 1..Len(alerts)
         /\ alerts[resp.alerts[i]].houseId \in HousesOwnedBy(resp.caller)

\* A homeowner lists the alerts while an alert of somebody else's house exists
C1_Witness ==
  /\ resp.route = "GET /api/alerts"
  /\ resp.role = "homeowner"
  /\ resp.status = 200
  /\ \E i \in 1..Len(alerts) : alerts[i].houseId \notin HousesOwnedBy(resp.caller)

GuardedRoutes ==
  {"GET /api/maintenance", "POST /api/maintenance", "PATCH /api/maintenance/:id",
   "DELETE /api/maintenance/:id", "GET /api/database/config-logs",
   "GET /api/audio/detections", "GET /api/audio/detections/device/:deviceId",
   "POST /api/audio/analyze"}

\* The allow-list of a guarded route
AllowedRoles(route) ==
  IF route \in {"GET /api/maintenance", "POST /api/maintenance",
                "PATCH /api/maintenance/:id", "DELETE /api/maintenance/:id"}
  THEN {"cloud_staff"}
  ELSE {"cloud_staff", "iot_team"}

\* C2: on the maintenance, config-log and audio routes a request with no
\* user is answered 401, an authenticated request whose role is not in the
\* allow-list is answered 403, in both cases the handler does not run and no
\* table changes, and the handler runs only for a role in the allow-list.
C2_RoleGuard ==
  [][(resp'.route \in GuardedRoutes) =>
       /\ resp'.caller = NULL =>
            resp'.status = 401 /\ ~resp'.ran /\ db' = db
       /\ (resp'.authed /\ resp'.role \notin AllowedRoles(resp'.route)) =>
            resp'.status = 403 /\ ~resp'.ran /\ db' = db
       /\ resp'.ran => resp'.role \in AllowedRoles(resp'.route)
       /\ db' # db => resp'.role \in AllowedRoles(resp'.route)]_vars

\* The IoT team asks to create a maintenance record and is refused
C2_Witness ==
  /\ resp.route = "POST /api/maintenance"
  /\ resp.role = "iot_team"
  /\ resp.bodyOk
  /\ resp.status = 403
  /\ ~resp.ran

DeviceMutationRoutes ==
  {"POST /api/devices", "PATCH /api/devices/:id", "DELETE /api/devices/:id"}

\* C3: an authenticated homeowner's POST, PATCH or DELETE of a device is
\* answered 403 and leaves the devices table as it was, and every step that
\* changes the devices table is a request of an iot_team or cloud_staff user.
C3_DeviceMutationsStaffOnly ==
  [][/\ (/\ resp'.route \in DeviceMutationRoutes
         /\ resp'.authed
         /\ resp'.role = "homeowner") =>
          resp'.status = 403 /\ devices' = devices
     /\ devices' # devices =>
          /\ resp'.route \in DeviceMutationRoutes
          /\ resp'.role \in {"iot_team", "cloud_staff"}]_vars

\* A homeowner asks to delete a device that exists and is refused
C3_Witness ==
  /\ resp.route = "DELETE /api/devices/:id"
  /\ resp.role = "homeowner"
  /\ resp.status = 403
  /\ resp.target \in DOMAIN devices

AlertStatusRoutes ==
  {"POST /api/alerts/:id/acknowledge", "POST /api/alerts/:id/resolve",
   "POST /api/alerts/:id/dismiss"}

\* C5: an authenticated homeowner's acknowledge, resolve or dismiss of an
\* existing alert of a house the caller does not own is answered 403 and
\* leaves the alert row as it was.
C5_HomeownerAlertStatusOwnHousesOnly ==
  [][(/\ resp'.route \in AlertStatusRoutes
      /\ resp'.authed
      /\ resp'.role = "homeowner"
      /\ resp'.target \in 1..Len(alerts)
      /\ alerts[resp'.target].houseId \notin HousesOwnedBy(resp'.caller)) =>
       resp'.status = 403 /\ alerts' = alerts]_vars

\* C6: an authenticated homeowner's POST /api/alerts with a well-formed body
\* for a house the caller does not own (a house of another owner, of no
\* owner, or no house at all) is answered 403 and creates no alert.
C6_AlertCreationChecksOwnership ==
  [][(/\ resp'.route = "POST /api/alerts"
      /\ resp'.authed
      /\ resp'.role = "homeowner"
      /\ resp'.bodyOk
      /\ resp'.target \notin HousesOwnedBy(resp'.caller)) =>
       resp'.status = 403 /\ alerts' = alerts]_vars

\* C10: the status of an alert only moves forward: a resolved or dismissed
\* alert keeps its status, and an acknowledged alert does not become new.
C10_AlertStatusMovesForward ==
  [][\A i \in 1..Len(alerts) :
       /\ alerts[i].status \in {"resolved", "dismissed"} =>
            alerts'[i].status = alerts[i].status
       /\ alerts[i].status = "acknowledged" => alerts'[i].status # "new"]_vars


\* C11: a successful acknowledge leaves the alert acknowledged with
\* acknowledgedBy the caller; a successful resolve leaves it resolved with
\* resolvedBy the caller and acknowledgedBy as it was; a successful dismiss
\* leaves it dismissed with acknowledgedBy and resolvedBy as they were.
C11_AlertTracking ==
  [][(resp'.route \in AlertStatusRoutes /\ resp'.status = 200) =>
       LET before == alerts[resp'.target]
           after == alerts'[resp'.target]
       IN /\ resp'.route = "POST /api/alerts/:id/acknowledge" =>
               after.status = "acknowledged" /\ after.acknowledgedBy = resp'.caller
          /\ resp'.route = "POST /api/alerts/:id/resolve" =>
               /\ after.status = "resolved"
               /\ after.resolvedBy = resp'.caller
               /\ after.acknowledgedBy = before.acknowledgedBy
          /\ resp'.route = "POST /api/alerts/:id/dismiss" =>
               /\ after.status = "dismissed"
               /\ after.acknowledgedBy = before.acknowledgedBy
               /\ after.resolvedBy = before.resolvedBy]_vars

\* An alert acknowledged by one user has just been resolved by another
C11_Witness ==
  /\ resp.route = "POST /api/alerts/:id/resolve"
  /\ resp.status = 200
  /\ alerts[resp.target].status = "resolved"
  /\ alerts[resp.target].resolvedBy = resp.caller
  /\ alerts[resp.target].acknowledgedBy \notin {NULL, resp.caller}


\* C12: a request of a Google OAuth or password session (a user with an id
\* and no OIDC claims) that passes isAuthenticated is served like an OIDC
\* one: GET /api/auth/user answers 200 with the record of that user.
C12_EveryLoginMethodWorks ==
  [][(/\ resp'.route = "GET /api/auth/user"
      /\ session.kind \in {"google", "local"}
      /\ resp'.authed) =>
       resp'.status = 200 /\ resp'.users = {session.uid}]_vars


SessionGuardedRoutes == {"GET /api/maintenance", "GET /api/database/config-logs"}

\* C18: a request of an open session is allowed or denied by requireRole
\* according to the role the users table holds at the time of the request,
\* whatever the role was at login.
C18_RoleReadAtEachRequest ==
  [][(resp'.route \in SessionGuardedRoutes /\ resp'.authed) =>
       LET current == users[session.uid].role
       IN /\ resp'.role = current
          /\ resp'.status = 403 <=> current \notin AllowedRoles(resp'.route)
          /\ resp'.ran <=> current \in AllowedRoles(resp'.route)]_vars

\* A Google session opened as cloud_staff is refused after the user has
\* become a homeowner
C18_Witness ==
  /\ resp.route = "GET /api/maintenance"
  /\ session.kind = "google"
  /\ session.role = "cloud_staff"
  /\ users[session.uid].role = "homeowner"
  /\ resp.status = 403

\* C19: for an OIDC session isAuthenticated lets a request through while
\* now <= expires_at; after the expiry it answers 401 when the session has
\* no refresh token or the grant fails, and lets the request through only
\* after a successful grant; a request with no user is answered 401.
C19_TokenExpiry ==
  [][(resp'.route = "GET /api/auth/user") =>
       /\ session.kind = "none" => resp'.status = 401
       /\ session.kind = "oidc" =>
            /\ resp'.now <= session.expires_at =>
                 resp'.authed /\ ~resp'.refreshed
            /\ (/\ resp'.now > session.expires_at
                /\ ~session.refresh_token \/ ~resp'.grantOk) =>
                 resp'.status = 401
            /\ (resp'.now > session.expires_at /\ resp'.authed) =>
                 resp'.refreshed /\ resp'.grantOk]_vars

\* An expired OIDC session is served after a successful refresh grant
C19_Witness ==
  /\ resp.route = "GET /api/auth/user"
  /\ session.kind = "oidc"
  /\ resp.now > session.expires_at
  /\ resp.refreshed
  /\ resp.status = 200

\* C20: after a request whose isAuthenticated refreshed the tokens, a later
\* request of the same session made no later than the new expiry passes
\* without another refresh grant.
C20_RefreshIsKept ==
  [][(/\ resp.route = "GET /api/auth/user"
      /\ resp.refreshed
      /\ resp'.route = "GET /api/auth/user"
      /\ session' = session
      /\ resp'.now >= resp.now
      /\ resp'.now <= resp.expires_at) =>
       resp'.authed /\ ~resp'.refreshed]_vars


\* C13: however concurrent register and POST /api/users requests with the
\* same email interleave, at most one users row has that email, and of the
\* answered requests with that email only the one whose row it is succeeded.
C13_EmailUniqueUnderConcurrency ==
  /\ \A email \in Emails : Cardinality(UsersWithEmail(email)) <= 1
  /\ \A slot \in Slots :
       (inflight[slot].pc = "done" /\ inflight[slot].status < 400) =>
         /\ inflight[slot].created \in DOMAIN users
         /\ users[inflight[slot].created].email = inflight[slot].email
  /\ \A s1, s2 \in Slots :
       (/\ s1 # s2
        /\ inflight[s1].pc = "done"
        /\ inflight[s2].pc = "done"
        /\ inflight[s1].email = inflight[s2].email) =>
         inflight[s1].status >= 400 \/ inflight[s2].status >= 400

\* Two requests with the same new email passed the lookup together: one
\* created the row, the other was stopped by the unique constraint
C13_Witness ==
  \E s1, s2 \in Slots :
    /\ inflight[s1].pc = "done"
    /\ inflight[s1].status \in {200, 201}
    /\ inflight[s2].pc = "done"
    /\ inflight[s2].status = 500
    /\ inflight[s1].email = inflight[s2].email
    /\ inflight[s1].route # inflight[s2].route


CreateUpdateRoutes ==
  {"POST /api/houses", "POST /api/devices", "PATCH /api/devices/:id",
   "POST /api/alerts", "POST /api/users", "POST /api/maintenance",
   "PATCH /api/maintenance/:id"}

\* C14: a create or update request whose body does not fit the schema is
\* rejected with an error status and changes no row.
C14_BodiesValidatedBeforeWrite ==
  [][(resp'.route \in CreateUpdateRoutes /\ ~resp'.bodyOk) =>
       resp'.status >= 400 /\ db' = db]_vars


C16_ClassFromFileName ==
  \A d \in DOMAIN audioDetections :
    audioDetections[d].detectedClass = KeywordClass(audioDetections[d].fileName)


\* C17: whenever a role change is attempted and rejected (a request that
\* would write a role is answered 403 by the role guard), userConfigLogs
\* gains an entry.
C17_BlockedRoleChangesLogged ==
  [][(/\ resp' # resp
      /\ resp'.route = "POST /api/users"
      /\ resp'.status = 403)
     => Len(userConfigLogs') > Len(userConfigLogs)]_vars


\* C21: when POST /api/users has created a row (id pre-<uuid>) with the e-mail
\* of a person who then logs in through OIDC, the login succeeds and exactly one
\* users row with that e-mail remains, the one whose id is the OIDC subject.
C21_PreCreatedUserReplacedOnOidcLogin ==
  [][\A sub \in Subs :
       (/\ resp.route = "POST /api/users"
        /\ resp.status = 201
        /\ \E id \in resp.users : users[id].email = EmailOfSub(sub)
        /\ resp'.route = "GET /api/callback"
        /\ resp'.target = sub)
       => /\ resp'.status = 302
          /\ {id \in DOMAIN users' : users'[id].email = EmailOfSub(sub)} = {sub}]_vars


C23_AlertsStartNew ==
  [][Len(alerts') > Len(alerts)
     => /\ alerts'[Len(alerts')].status = "new"
        /\ alerts'[Len(alerts')].acknowledgedBy = NULL
        /\ alerts'[Len(alerts')].resolvedBy = NULL]_vars


\* The alerts on the houses of this owner, most recent first
OwnAlerts(userId) == FilterByHouses(getAllAlerts, HousesOwnedBy(userId))

\* C24: GET /api/alerts/recent?limit=n of a homeowner with k alerts on their
\* own houses returns the min(n, k) most recent of them, however many alerts
\* the houses of others have.
C24_RecentAlertsOfHomeowner ==
  (/\ resp.route = "GET /api/alerts/recent"
   /\ resp.status = 200
   /\ resp.role = "homeowner")
  => resp.alerts = SubSeq(OwnAlerts(resp.caller), 1,
                          Min(resp.target, Len(OwnAlerts(resp.caller))))


\* C25: a house that POST /api/houses creates has the authenticated caller as
\* its ownerId, whatever ownerId the request body carries.
C25_NewHouseOwnedByCaller ==
  [][\A h \in DOMAIN houses' \ DOMAIN houses :
       /\ resp'.route = "POST /api/houses"
       /\ session.uid # NULL
       /\ houses'[h].ownerId = session.uid]_vars

\* A house was created for a body that names another user as the owner
C25_Witness ==
  /\ resp.route = "POST /api/houses"
  /\ resp.status = 201
  /\ resp.target \notin {NULL, resp.caller}
  /\ \E h \in resp.houses : h \in DOMAIN houses /\ houses[h].ownerId = resp.caller


\* C26: no response body holds the password hash of a user: register, login,
\* GET /api/auth/user and GET /api/users never send the password column.
C26_NoPasswordInResponses ==
  resp.route \in {"POST /api/auth/register", "POST /api/auth/login",
                  "GET /api/auth/user", "GET /api/users"}
  => resp.passwords = {}


\* C27: canAccessHouse returns true for cloud_staff and iot_team whatever the
\* house; for any other role it returns false for a house that does not exist
\* or has no owner, and otherwise true exactly when ownerId equals userId.
C27_CanAccessHouse ==
  resp.route = "canAccessHouse"
  => CASE resp.role \in {"cloud_staff", "iot_team"} -> resp.authed
       [] resp.target \notin DOMAIN houses -> ~resp.authed
       [] houses[resp.target].ownerId = NULL -> ~resp.authed
       [] OTHER -> resp.authed <=> (houses[resp.target].ownerId = resp.caller)

\* A homeowner was refused a house of the other homeowner
C27_Witness ==
  /\ resp.route = "canAccessHouse"
  /\ resp.role = "homeowner"
  /\ resp.target \in DOMAIN houses
  /\ houses[resp.target].ownerId \notin {NULL, resp.caller}
  /\ ~resp.authed

====
